---- MODULE Spec2Model ----
(***************************************************************************)
(* Model of joshdk/quantize: Modified Median Cut Quantization.             *)
(*                                                                         *)
(* A Go slice is modelled as a window [off, len] onto the backing array    *)
(* `pixels` of the caller's slice, so that the in-place stable sort of     *)
(* Partition and the sub-slicing pixels[:n/2], pixels[n/2:] alias the      *)
(* caller's memory exactly as the Go code does.                            *)
(***************************************************************************)
EXTENDS Integers, Sequences, FiniteSets

\* ---------------------------------------------------------------- bounds
MaxLen == 4
MaxLevels == 2

\* color.RGBA values the inputs are drawn from: the four pixels of the
\* "order level" tests, a saturated pixel with a zero alpha, a pixel that
\* with (0,4,0) ties the red and green spreads above blue, and a pixel that
\* with (0,0,6) ties the green and blue spreads above red.
Pixel(r, g, b, a) == [R |-> r, G |-> g, B |-> b, A |-> a]

PixelDomain ==
    { Pixel(8, 0, 0, 255), Pixel(0, 4, 0, 255), Pixel(8, 4, 0, 255),
      Pixel(0, 0, 6, 255), Pixel(255, 0, 255, 0), Pixel(4, 0, 0, 128),
      Pixel(0, 6, 0, 255) }

\* The pixels the reordered runs draw from: pairwise different on every
\* channel that could be picked, so that a misplaced write or read shows.
OrderDomain ==
    { Pixel(8, 0, 0, 255), Pixel(0, 4, 0, 255), Pixel(8, 4, 0, 255),
      Pixel(0, 0, 6, 255) }

RECURSIVE SeqsUpTo(_, _)
SeqsUpTo(n, domain) ==
    IF n = 0 THEN { <<>> }
    ELSE LET shorter == SeqsUpTo(n - 1, domain)
         IN  shorter \cup { Append(s, p) : s \in { t \in shorter : Len(t) = n - 1 },
                                           p \in domain }

Inputs == SeqsUpTo(MaxLen, PixelDomain)

OrderInputs == SeqsUpTo(MaxLen, OrderDomain)

\* ------------------------------------------------------------ uint8 helpers
Uint8(x) == x % 256

min(first, second) == IF first < second THEN first ELSE second

max(first, second) == IF first > second THEN first ELSE second

\* ------------------------------------------------------------------ Spread
\* The range loop of Spread, carrying the six running minima/maxima.
RECURSIVE SpreadLoop(_, _, _)
SpreadLoop(px, i, acc) ==
    IF i > Len(px) THEN acc
    ELSE SpreadLoop(px, i + 1,
            [minRed   |-> min(acc.minRed, px[i].R),
             maxRed   |-> max(acc.maxRed, px[i].R),
             minGreen |-> min(acc.minGreen, px[i].G),
             maxGreen |-> max(acc.maxGreen, px[i].G),
             minBlue  |-> min(acc.minBlue, px[i].B),
             maxBlue  |-> max(acc.maxBlue, px[i].B)])

\* Mutant: the operands of the subtraction exchanged.
DeltaReversed(hi, lo) == Uint8(lo - hi)

\* uint8 subtraction of the running extremes.
Delta(hi, lo) == Uint8(hi - lo)

Spread(px) ==
    IF Len(px) = 0 THEN <<0, 0, 0>>
    ELSE LET acc == SpreadLoop(px, 1,
                      [minRed   |-> px[1].R, maxRed   |-> px[1].R,
                       minGreen |-> px[1].G, maxGreen |-> px[1].G,
                       minBlue  |-> px[1].B, maxBlue  |-> px[1].B])
         IN  << Delta(acc.maxRed, acc.minRed),
                Delta(acc.maxGreen, acc.minGreen),
                Delta(acc.maxBlue, acc.minBlue) >>

\* --------------------------------------------------------------- Partition
\* Mutant: the green case tested before the red case.
SortChannelGreenFirst(deltaR, deltaG, deltaB) ==
    IF deltaG >= deltaR /\ deltaG >= deltaB THEN "G"
    ELSE IF deltaR >= deltaG /\ deltaR >= deltaB THEN "R"
    ELSE IF deltaB >= deltaR /\ deltaB >= deltaG THEN "B"
    ELSE "nil"

\* Mutant: the comparisons of the switch turned round.
SortChannelLeast(deltaR, deltaG, deltaB) ==
    IF deltaR <= deltaG /\ deltaR <= deltaB THEN "R"
    ELSE IF deltaG <= deltaR /\ deltaG <= deltaB THEN "G"
    ELSE IF deltaB <= deltaR /\ deltaB <= deltaG THEN "B"
    ELSE "nil"

\* The switch that picks the less closure; "nil" is the unassigned func.
SortChannel(deltaR, deltaG, deltaB) ==
    IF deltaR >= deltaG /\ deltaR >= deltaB THEN "R"
    ELSE IF deltaG >= deltaR /\ deltaG >= deltaB THEN "G"
    ELSE IF deltaB >= deltaR /\ deltaB >= deltaG THEN "B"
    ELSE "nil"

Component(p, ch) ==
    CASE ch = "R" -> p.R
      [] ch = "G" -> p.G
      [] ch = "B" -> p.B

\* Mutant: <= in place of <, which makes the insertion sort unstable.
lessOrEqual(px, i, j, ch) == Component(px[i], ch) <= Component(px[j], ch)

\* The less closures: pixels[i].X < pixels[j].X
less(px, i, j, ch) == Component(px[i], ch) < Component(px[j], ch)

\* Mutant: a swap that overwrites one element instead of exchanging two.
SwapOverwrite(px, i, j) == [px EXCEPT ![i] = px[j]]

Swap(px, i, j) == [px EXCEPT ![i] = px[j], ![j] = px[i]]

\* sort.SliceStable on at most 20 elements is one insertion-sort block:
\*   for i := a+1; i < b; i++ { for j := i; j > a && less(j, j-1); j-- { swap(j, j-1) } }
RECURSIVE InsertionInner(_, _, _)
InsertionInner(px, j, ch) ==
    IF j > 1 /\ less(px, j, j - 1, ch)
    THEN InsertionInner(Swap(px, j, j - 1), j - 1, ch)
    ELSE px

RECURSIVE InsertionOuter(_, _, _)
InsertionOuter(px, i, ch) ==
    IF i > Len(px) THEN px
    ELSE InsertionOuter(InsertionInner(px, i, ch), i + 1, ch)

SliceStable(px, ch) == InsertionOuter(px, 2, ch)

\* Slices: windows onto the backing array.
Slice(off, len) == [off |-> off, len |-> len]

EmptySlice == Slice(0, 0)

Contents(mem, s) == SubSeq(mem, s.off + 1, s.off + s.len)

\* The channel Partition sorts its argument on.
PartitionChannel(px) ==
    LET d == Spread(px) IN SortChannel(d[1], d[2], d[3])

\* Mutant: the sort runs one element past the end of its window.
SortWindowOverrun(mem, s, ch) ==
    LET len == IF s.off + s.len < Len(mem) THEN s.len + 1 ELSE s.len
        sorted == SliceStable(SubSeq(mem, s.off + 1, s.off + len), ch)
    IN  [k \in 1..Len(mem) |->
            IF k > s.off /\ k <= s.off + len THEN sorted[k - s.off] ELSE mem[k]]

\* Backing array after sort.SliceStable(pixels, less) ran on the window s
\* with the less closure of channel ch.
SortWindow(mem, s, ch) ==
    LET sorted == SliceStable(Contents(mem, s), ch)
    IN  [k \in 1..Len(mem) |->
            IF k > s.off /\ k <= s.off + s.len THEN sorted[k - s.off] ELSE mem[k]]

PartitionMem(mem, s) ==
    IF s.len = 0 THEN mem
    ELSE SortWindow(mem, s, PartitionChannel(Contents(mem, s)))

\* Mutant: the left half rounded up, overlapping the right half.
PartitionLeftCeil(s) ==
    IF s.len = 0 THEN Slice(0, 0) ELSE Slice(s.off, (s.len + 1) \div 2)

\* pixels[:len(pixels)/2]
PartitionLeft(s) ==
    IF s.len = 0 THEN EmptySlice ELSE Slice(s.off, s.len \div 2)

\* Mutant: the right half starts one element late.
PartitionRightLate(s) ==
    IF s.len = 0 THEN Slice(0, 0)
    ELSE Slice(s.off + (s.len \div 2) + 1, s.len - (s.len \div 2) - 1)

\* pixels[len(pixels)/2:]
PartitionRight(s) ==
    IF s.len = 0 THEN EmptySlice
    ELSE Slice(s.off + (s.len \div 2), s.len - (s.len \div 2))

\* ----------------------------------------------------------------- Average
RECURSIVE Total(_, _, _)
Total(px, i, ch) ==
    IF i > Len(px) THEN 0 ELSE Component(px[i], ch) + Total(px, i + 1, ch)

\* Mutant: the totals kept in uint8 accumulators.
AverageNarrow(px) ==
    IF Len(px) = 0 THEN Pixel(0, 0, 0, 255)
    ELSE Pixel(Uint8(Uint8(Total(px, 1, "R")) \div Len(px)),
               Uint8(Uint8(Total(px, 1, "G")) \div Len(px)),
               Uint8(Uint8(Total(px, 1, "B")) \div Len(px)),
               255)

Average(px) ==
    IF Len(px) = 0 THEN Pixel(0, 0, 0, 255)
    ELSE Pixel(Uint8(Total(px, 1, "R") \div Len(px)),
               Uint8(Total(px, 1, "G") \div Len(px)),
               Uint8(Total(px, 1, "B") \div Len(px)),
               255)

\* Partition on values: the two halves of the stably sorted argument.
Partition(px) ==
    IF Len(px) = 0 THEN << <<>>, <<>> >>
    ELSE LET sorted == SliceStable(px, PartitionChannel(px))
         IN  << SubSeq(sorted, 1, Len(px) \div 2),
                SubSeq(sorted, (Len(px) \div 2) + 1, Len(px)) >>

\* ------------------------------------------------------------------- state
VARIABLES
    input,       \* contents of the caller's slice when Pixels was entered
    levels,      \* the levels argument
    pixels,      \* backing array of the caller's slice
    partitions,  \* current generation, a sequence of slices
    next,        \* generation under construction
    iteration,   \* outer loop counter
    index,       \* position of the range loops (1-based)
    averages,    \* the palette
    pc,          \* position in Pixels
    call,        \* last direct call of Spread / Partition / Average
    steps,       \* reordered runs: progress of each Partition call of the level
    previous     \* repeated call: the palette the call before returned

vars == <<input, levels, pixels, partitions, next, iteration, index, averages, pc,
          call, steps, previous>>

NoCall ==
    [fn |-> "none", arg |-> <<>>, spread |-> <<0, 0, 0>>, channel |-> "nil",
     left |-> <<>>, right |-> <<>>, average |-> Pixel(0, 0, 0, 0)]

\* Calling the nil less func panics; sorting fewer than two elements never calls it.
Panics(mem, s) == s.len >= 2 /\ PartitionChannel(Contents(mem, s)) = "nil"

\* Mutant: only the left half appended.
AppendLeftOnly(nxt, left, right) == nxt \o <<left>>

\* Mutant: the halves appended right first.
AppendSwapped(nxt, left, right) == nxt \o <<right, left>>

\* next = append(next, left, right)
AppendPair(nxt, left, right) == nxt \o <<left, right>>

\* ------------------------------------------------------------ Pixels driver
Init ==
    /\ input \in Inputs
    /\ levels \in 0..MaxLevels
    /\ pixels = input
    /\ partitions = << Slice(0, Len(input)) >>
    /\ next = <<>>
    /\ iteration = 0
    /\ index = 1
    /\ averages = <<>>
    /\ pc = "level"
    /\ call = NoCall
    /\ steps = <<>>
    /\ previous = <<>>

\* for iteration := 0; iteration < levels; iteration++ { next := [][]color.RGBA{}
LevelBegin ==
    /\ pc = "level"
    /\ iteration < levels
    /\ next' = <<>>
    /\ index' = 1
    /\ pc' = "range"
    /\ UNCHANGED <<input, levels, pixels, partitions, iteration, averages, call, steps, previous>>

\* left, right := Partition(partition); next = append(next, left, right)
PartitionStep ==
    /\ pc = "range"
    /\ index <= Len(partitions)
    /\ pixels' = PartitionMem(pixels, partitions[index])
    /\ next' = AppendPair(next, PartitionLeft(partitions[index]),
                                 PartitionRight(partitions[index]))
    /\ index' = index + 1
    /\ pc' = IF Panics(pixels, partitions[index]) THEN "panic" ELSE pc
    /\ UNCHANGED <<input, levels, partitions, iteration, averages, call, steps, previous>>

\* partitions = next; iteration++
LevelEnd ==
    /\ pc = "range"
    /\ index > Len(partitions)
    /\ partitions' = next
    /\ iteration' = iteration + 1
    /\ pc' = "level"
    /\ UNCHANGED <<input, levels, pixels, next, index, averages, call, steps, previous>>

\* averages := make([]color.RGBA, len(partitions))
MakeAverages ==
    /\ pc = "level"
    /\ iteration >= levels
    /\ averages' = [k \in 1..Len(partitions) |-> Pixel(0, 0, 0, 0)]
    /\ index' = 1
    /\ pc' = "average"
    /\ UNCHANGED <<input, levels, pixels, partitions, next, iteration, call, steps, previous>>

\* averages[index] = Average(partition)
AverageStep ==
    /\ pc = "average"
    /\ index <= Len(partitions)
    /\ averages' = [averages EXCEPT ![index] = Average(Contents(pixels, partitions[index]))]
    /\ index' = index + 1
    /\ UNCHANGED <<input, levels, pixels, partitions, next, iteration, pc, call, steps, previous>>

\* return averages
Return ==
    /\ pc = "average"
    /\ index > Len(partitions)
    /\ pc' = "done"
    /\ UNCHANGED <<input, levels, pixels, partitions, next, iteration, index, averages,
                   call, steps, previous>>

Next ==
    \/ LevelBegin
    \/ PartitionStep
    \/ LevelEnd
    \/ MakeAverages
    \/ AverageStep
    \/ Return

Spec == Init /\ [][Next]_vars

\* ------------------------------------------------- direct calls of the stages
\* Spread, Partition and Average called directly on a slice, as the tests do.
Whole(mem) == Slice(0, Len(mem))

UnitInit ==
    /\ input \in Inputs
    /\ levels = 0
    /\ pixels = input
    /\ partitions = <<>>
    /\ next = <<>>
    /\ iteration = 0
    /\ index = 1
    /\ averages = <<>>
    /\ pc = "unit"
    /\ call = NoCall
    /\ steps = <<>>
    /\ previous = <<>>

CallSpread ==
    /\ pc = "unit"
    /\ call' = [NoCall EXCEPT !.fn = "Spread", !.arg = pixels, !.spread = Spread(pixels)]
    /\ UNCHANGED <<input, levels, pixels, partitions, next, iteration, index, averages, pc, steps, previous>>

CallPartition ==
    /\ pc = "unit"
    /\ pixels' = PartitionMem(pixels, Whole(pixels))
    /\ call' = [NoCall EXCEPT
                  !.fn = "Partition",
                  !.arg = pixels,
                  !.spread = Spread(pixels),
                  !.channel = IF Len(pixels) = 0 THEN "nil" ELSE PartitionChannel(pixels),
                  !.left = Contents(pixels', PartitionLeft(Whole(pixels))),
                  !.right = Contents(pixels', PartitionRight(Whole(pixels)))]
    /\ UNCHANGED <<input, levels, partitions, next, iteration, index, averages, pc, steps, previous>>

CallAverage ==
    /\ pc = "unit"
    /\ call' = [NoCall EXCEPT !.fn = "Average", !.arg = pixels, !.average = Average(pixels)]
    /\ UNCHANGED <<input, levels, pixels, partitions, next, iteration, index, averages, pc, steps, previous>>

UnitNext ==
    \/ CallSpread
    \/ CallPartition
    \/ CallAverage

UnitSpec == UnitInit /\ [][UnitNext]_vars

\* ------------------------------------------- the level loop in any order
\* The Partition calls of one generation run in any order and interleaved:
\* each call first reads its window (Spread and the switch), later sorts and
\* splits it, and puts its halves at its own two places of next.  steps[i]
\* is "todo", the channel of the less closure once chosen, or "done".
OrderInit ==
    /\ input \in OrderInputs
    /\ levels \in 0..MaxLevels
    /\ pixels = input
    /\ partitions = << Slice(0, Len(input)) >>
    /\ next = <<>>
    /\ iteration = 0
    /\ index = 1
    /\ averages = <<>>
    /\ pc = "level"
    /\ call = NoCall
    /\ steps = <<>>
    /\ previous = <<>>

OrderLevelBegin ==
    /\ pc = "level"
    /\ iteration < levels
    /\ next' = [k \in 1..(2 * Len(partitions)) |-> EmptySlice]
    /\ steps' = [k \in 1..Len(partitions) |-> "todo"]
    /\ pc' = "range"
    /\ UNCHANGED <<input, levels, pixels, partitions, iteration, index, averages, call, previous>>

\* Partition up to the switch: the early return, or Spread and the less closure.
OrderChoose(i) ==
    /\ pc = "range"
    /\ steps[i] = "todo"
    /\ steps' = [steps EXCEPT ![i] =
                    IF partitions[i].len = 0 THEN "done"
                    ELSE PartitionChannel(Contents(pixels, partitions[i]))]
    /\ UNCHANGED <<input, levels, pixels, partitions, next, iteration, index,
                   averages, pc, call, previous>>

\* Partition from the sort on, and the append of its two halves.
OrderSort(i) ==
    /\ pc = "range"
    /\ steps[i] \in {"R", "G", "B"}
    /\ pixels' = SortWindow(pixels, partitions[i], steps[i])
    /\ next' = [next EXCEPT ![2 * i - 1] = PartitionLeft(partitions[i]),
                            ![2 * i] = PartitionRight(partitions[i])]
    /\ steps' = [steps EXCEPT ![i] = "done"]
    /\ UNCHANGED <<input, levels, partitions, iteration, index, averages, pc, call, previous>>

OrderLevelEnd ==
    /\ pc = "range"
    /\ \A i \in 1..Len(partitions) : steps[i] = "done"
    /\ partitions' = next
    /\ iteration' = iteration + 1
    /\ pc' = "level"
    /\ UNCHANGED <<input, levels, pixels, next, index, averages, call, steps, previous>>

OrderNext ==
    \/ OrderLevelBegin
    \/ \E i \in 1..Len(partitions) : OrderChoose(i)
    \/ \E i \in 1..Len(partitions) : OrderSort(i)
    \/ OrderLevelEnd
    \/ MakeAverages
    \/ AverageStep
    \/ Return

OrderSpec == OrderInit /\ [][OrderNext]_vars

\* The range loop run left to right from position i: the backing array and next.
RECURSIVE RangeLoop(_, _, _, _)
RangeLoop(mem, parts, i, nxt) ==
    IF i > Len(parts) THEN [mem |-> mem, next |-> nxt]
    ELSE RangeLoop(PartitionMem(mem, parts[i]), parts, i + 1,
                   AppendPair(nxt, PartitionLeft(parts[i]), PartitionRight(parts[i])))

\* The level loop run for k iterations: the backing array and the generation.
RECURSIVE LevelLoop(_, _)
LevelLoop(mem, k) ==
    IF k = 0 THEN [mem |-> mem, next |-> << Slice(0, Len(mem)) >>]
    ELSE LET before == LevelLoop(mem, k - 1)
         IN  RangeLoop(before.mem, before.next, 1, <<>>)

\* The palette of the sequential run.
Pixels(mem, l) ==
    LET last == LevelLoop(mem, l)
    IN  [k \in 1..Len(last.next) |-> Average(Contents(last.mem, last.next[k]))]

\* --------------------------------------------------- Pixels called twice
\* The caller passes the same slice, as the first call left it, to Pixels again
\* with the same levels.  previous is <<>> until then: a palette is never empty.
CallAgain ==
    /\ pc = "done"
    /\ previous = <<>>
    /\ previous' = averages
    /\ partitions' = << Slice(0, Len(pixels)) >>
    /\ next' = <<>>
    /\ iteration' = 0
    /\ index' = 1
    /\ averages' = <<>>
    /\ pc' = "level"
    /\ UNCHANGED <<input, levels, pixels, call, steps>>

AgainNext ==
    \/ Next
    \/ CallAgain

AgainSpec == Init /\ [][AgainNext]_vars

\* ---------------------------------------------------------------- properties
RECURSIVE Pow2(_)
Pow2(n) == IF n = 0 THEN 1 ELSE 2 * Pow2(n - 1)

Count(seq, p) == Cardinality({ i \in 1..Len(seq) : seq[i] = p })

SameMultiset(a, b) == \A p \in PixelDomain : Count(a, p) = Count(b, p)

ChannelValues(px, ch) == { Component(px[i], ch) : i \in 1..Len(px) }

Greatest(S) == CHOOSE x \in S : \A y \in S : y <= x

Least(S) == CHOOSE x \in S : \A y \in S : x <= y

Range(px, ch) == Greatest(ChannelValues(px, ch)) - Least(ChannelValues(px, ch))

\* Position of px[i] in the stable ascending order on channel ch.
StableRank(px, i, ch) ==
    1 + Cardinality({ j \in 1..Len(px) : Component(px[j], ch) < Component(px[i], ch) })
      + Cardinality({ j \in 1..(i - 1) : Component(px[j], ch) = Component(px[i], ch) })

StableSorted(px, ch) ==
    [k \in 1..Len(px) |-> px[CHOOSE i \in 1..Len(px) : StableRank(px, i, ch) = k]]

\* First channel, in the order red, green, blue, whose spread is >= both others.
FirstWidest(d) ==
    LET names == <<"R", "G", "B">>
        widest(i) == \A j \in 1..3 : d[i] >= d[j]
    IN  names[CHOOSE i \in 1..3 : widest(i) /\ \A j \in 1..(i - 1) : ~widest(j)]

RECURSIVE Flatten(_, _, _)
Flatten(mem, parts, i) ==
    IF i > Len(parts) THEN <<>>
    ELSE Contents(mem, parts[i]) \o Flatten(mem, parts, i + 1)

RECURSIVE TotalLen(_, _)
TotalLen(parts, i) ==
    IF i > Len(parts) THEN 0 ELSE parts[i].len + TotalLen(parts, i + 1)

Cells(s) == (s.off + 1)..(s.off + s.len)

NoOverlap(parts) ==
    \A i, j \in 1..Len(parts) : i # j => Cells(parts[i]) \cap Cells(parts[j]) = {}

\* The depth-first recursion: average at level 0, else recurse left then right.
RECURSIVE DepthFirst(_, _)
DepthFirst(px, l) ==
    IF l = 0 THEN << Average(px) >>
    ELSE DepthFirst(Partition(px)[1], l - 1) \o DepthFirst(Partition(px)[2], l - 1)

RECURSIVE SumOf(_, _)
SumOf(px, ch) ==
    IF Len(px) = 0 THEN 0
    ELSE SumOf(SubSeq(px, 1, Len(px) - 1), ch) + Component(px[Len(px)], ch)

\* q is floor(total / n)
IsFloorQuotient(q, total, n) == q * n <= total /\ total < (q + 1) * n

\* C1: for every pixel sequence (the empty one included) and every levels >= 0,
\* Pixels runs to its return without panicking and the palette it returns
\* holds exactly 2^levels pixels.
C1_PaletteSize ==
    /\ pc # "panic"
    /\ iteration <= levels
    /\ pc \in {"range", "average"} => index <= Len(partitions) + 1
    /\ pc = "done" => Len(averages) = Pow2(levels)

C1_Witness == pc = "done" /\ levels >= 2 /\ Len(input) = 0 /\ Len(averages) = Pow2(levels)

\* C2: the palette of the breadth-first generation loop equals the depth-first
\* recursion Pixels(P, 0) = [Average(P)], Pixels(P, L+1) = Pixels(left, L)
\* followed by Pixels(right, L) with (left, right) = Partition(P).
C2_DepthFirstOrder == pc = "done" => averages = DepthFirst(input, levels)

C2_Witness ==
    /\ pc = "done"
    /\ levels >= 2
    /\ Len(input) >= 4
    /\ averages = DepthFirst(input, levels)
    /\ \A i, j \in 1..Len(averages) : i # j => averages[i] # averages[j]

\* C3: Partition(P) returns (S[0 .. n/2), S[n/2 .. n)) where S is P sorted
\* ascending on the selected channel by a stable sort; an empty P gives two
\* empty sequences and a one-pixel P an empty left and a one-pixel right.
C3_StableHalves ==
    call.fn = "Partition" =>
        LET n == Len(call.arg)
            S == IF n = 0 THEN <<>> ELSE StableSorted(call.arg, call.channel)
        IN  /\ call.left = SubSeq(S, 1, n \div 2)
            /\ call.right = SubSeq(S, (n \div 2) + 1, n)
            /\ n = 0 => call.left = <<>> /\ call.right = <<>>
            /\ n = 1 => call.left = <<>> /\ call.right = call.arg

\* Two pixels equal on the sort channel arrive out of that channel's order
\* around them and keep their relative order.
C3_Witness ==
    /\ call.fn = "Partition"
    /\ Len(call.arg) = 3
    /\ call.channel = "R"
    /\ call.arg[1].R = call.arg[3].R
    /\ call.arg[1] # call.arg[3]
    /\ call.arg[2].R < call.arg[1].R
    /\ call.left = << call.arg[2] >>
    /\ call.right = << call.arg[1], call.arg[3] >>

\* C4: the two sequences returned by Partition(P) have sizes that sum to |P|
\* and their concatenation is a permutation of P as a multiset.
C4_Permutation ==
    call.fn = "Partition" =>
        /\ Len(call.left) + Len(call.right) = Len(call.arg)
        /\ SameMultiset(call.left \o call.right, call.arg)

C4_Witness ==
    /\ call.fn = "Partition"
    /\ Len(call.arg) = 4
    /\ call.left \o call.right # call.arg
    /\ SameMultiset(call.left \o call.right, call.arg)

\* C5: at every generation of Pixels the partitions do not overlap, their
\* sizes sum to |P| and their multiset union is the multiset of the input.
C5_GenerationCover ==
    /\ NoOverlap(partitions)
    /\ TotalLen(partitions, 1) = Len(input)
    /\ SameMultiset(Flatten(pixels, partitions, 1), input)

C5_Witness ==
    /\ pc = "level"
    /\ iteration = 2
    /\ Len(input) = 3
    /\ pixels # input
    /\ Len(partitions) = 4
    /\ C5_GenerationCover

\* C6: Partition sorts on the first channel, in the order red, green, blue,
\* whose spread is >= the spreads of both other channels; red when red and
\* green tie above blue, and red when all three spreads are equal.
C6_ChannelChoice ==
    (call.fn = "Partition" /\ Len(call.arg) > 0) =>
        LET d == << Range(call.arg, "R"), Range(call.arg, "G"), Range(call.arg, "B") >>
        IN  /\ call.channel = FirstWidest(d)
            /\ (d[1] = d[2] /\ d[1] > d[3]) => call.channel = "R"
            /\ (d[1] = d[2] /\ d[2] = d[3]) => call.channel = "R"
            /\ call.left \o call.right = StableSorted(call.arg, FirstWidest(d))

\* Red and green spreads tie above blue and the pixels arrive in descending red.
C6_Witness ==
    /\ call.fn = "Partition"
    /\ call.arg = << Pixel(4, 0, 0, 128), Pixel(0, 4, 0, 255) >>
    /\ call.spread = <<4, 4, 0>>
    /\ call.channel = "R"
    /\ call.left = << Pixel(0, 4, 0, 255) >>

\* C7: after Pixels(P, L) returns, the caller's slice holds the same pixels
\* in the same order as before the call.
C7_InputUntouched == pc = "done" => pixels = input

\* C8: Average of a non-empty P has each of red, green and blue equal to
\* floor(channel sum / |P|), an 8-bit value reached without wrap-around, and
\* alpha 0xFF whatever the input alphas; Average of the empty sequence is
\* (0, 0, 0) with alpha 0xFF.
C8_FloorMean ==
    call.fn = "Average" =>
        LET n == Len(call.arg) IN
        /\ call.average.A = 255
        /\ n = 0 => call.average = Pixel(0, 0, 0, 255)
        /\ n > 0 =>
              \A ch \in {"R", "G", "B"} :
                  /\ Component(call.average, ch) \in 0..255
                  /\ IsFloorQuotient(Component(call.average, ch), SumOf(call.arg, ch), n)

\* A channel total above 255 and an input alpha other than 0xFF.
C8_Witness ==
    /\ call.fn = "Average"
    /\ SumOf(call.arg, "R") > 255
    /\ \E i \in 1..Len(call.arg) : call.arg[i].A # 255
    /\ SumOf(call.arg, "R") % Len(call.arg) # 0
    /\ call.average.A = 255

\* C9: Spread of a non-empty P is, per channel, maximum - minimum over P, a
\* value in 0..255 without wrap-around that is 0 exactly when all pixels
\* agree on the channel; Spread of the empty sequence is (0, 0, 0).
C9_SpreadRange ==
    call.fn = "Spread" =>
        LET chans == <<"R", "G", "B">> IN
        /\ Len(call.arg) = 0 => call.spread = <<0, 0, 0>>
        /\ Len(call.arg) > 0 =>
              \A c \in 1..3 :
                  /\ call.spread[c] = Range(call.arg, chans[c])
                  /\ call.spread[c] \in 0..255
                  /\ call.spread[c] = 0 <=> Cardinality(ChannelValues(call.arg, chans[c])) = 1

C9_Witness ==
    /\ call.fn = "Spread"
    /\ Len(call.arg) >= 3
    /\ call.spread[1] = 255
    /\ call.spread[2] = 0
    /\ call.spread[3] = 255
    /\ call.arg[1].R > call.arg[2].R

\* C10: the Partition steps of one generation are independent: a step writes
\* no pixel outside its own set, sets whose step has not begun still hold what
\* the sequential run gives them, and whatever the order or interleaving of
\* the steps each generation and the final palette are those of the
\* sequential left-to-right run.
C10_OrderIndependent ==
    /\ pc = "level" =>
          /\ pixels = LevelLoop(input, iteration).mem
          /\ partitions = LevelLoop(input, iteration).next
    /\ pc = "range" =>
          \A i \in 1..Len(partitions) :
              /\ steps[i] # "done" =>
                    Contents(pixels, partitions[i])
                        = Contents(LevelLoop(input, iteration).mem, partitions[i])
              /\ steps[i] = "done" =>
                    /\ Contents(pixels, partitions[i])
                          = Contents(LevelLoop(input, iteration + 1).mem, partitions[i])
                    /\ next[2 * i - 1] = LevelLoop(input, iteration + 1).next[2 * i - 1]
                    /\ next[2 * i] = LevelLoop(input, iteration + 1).next[2 * i]
    /\ pc = "done" => averages = Pixels(input, levels)

\* The right set of the generation is sorted, and changed by it, while the
\* left one has chosen its channel but not yet sorted.
C10_Witness ==
    /\ pc = "range"
    /\ iteration = 1
    /\ Len(partitions) = 2
    /\ steps[1] \in {"R", "G", "B"}
    /\ steps[2] = "done"
    /\ Contents(pixels, partitions[2])
          # Contents(LevelLoop(input, 1).mem, partitions[2])
    /\ Contents(pixels, partitions[1])
          # Contents(LevelLoop(input, 2).mem, partitions[1])

\* The pixels of the "order level 1" case of TestPixels, and its palette.
OrderLevelPixels ==
    << Pixel(8, 0, 0, 255), Pixel(0, 4, 0, 255), Pixel(8, 4, 0, 255),
       Pixel(0, 0, 6, 255) >>

OrderLevelPalette == << Pixel(0, 2, 3, 255), Pixel(8, 2, 0, 255) >>

\* C11 as stated: Pixels of [(8,0,0), (0,4,0), (8,4,0), (0,0,6)] at one level
\* yields [(0,2,3), (8,2,0)] by splitting on the blue channel, whose spread of
\* 6 is the largest of the three.
C11_SplitOnBlue ==
    (input = OrderLevelPixels /\ levels = 1 /\ pc = "done") =>
        /\ averages = OrderLevelPalette
        /\ Range(input, "B") = 6
        /\ Range(input, "B") >= Range(input, "R")
        /\ Range(input, "B") >= Range(input, "G")
        /\ pixels = StableSorted(input, "B")

\* C11 amended: the same input at one level yields [(0,2,3), (8,2,0)] by
\* splitting on the red channel, whose spread of 8 exceeds the green spread
\* of 4 and the blue spread of 6.
C11_SplitOnRed ==
    (input = OrderLevelPixels /\ levels = 1 /\ pc = "done") =>
        /\ averages = OrderLevelPalette
        /\ Range(input, "R") = 8
        /\ Range(input, "G") = 4
        /\ Range(input, "B") = 6
        /\ pixels = StableSorted(input, "R")
        /\ partitions = << Slice(0, 2), Slice(2, 2) >>

C11_Witness ==
    /\ input = OrderLevelPixels
    /\ levels = 1
    /\ pc = "done"
    /\ pixels = << Pixel(0, 4, 0, 255), Pixel(0, 0, 6, 255),
                   Pixel(8, 0, 0, 255), Pixel(8, 4, 0, 255) >>
    /\ Len(averages) = 2

FloorShare(n, k) == n \div Pow2(k)

CeilShare(n, k) == (n + Pow2(k) - 1) \div Pow2(k)

\* C12: at every generation k of Pixels(P, L) with |P| = n each partition
\* holds floor(n / 2^k) or ceil(n / 2^k) pixels; hence when n >= 2^L no
\* final partition is empty and every palette entry is the average of at
\* least one pixel, never the value Average gives for the empty set.
C12_BalancedSizes ==
    /\ \A i \in 1..Len(partitions) :
          partitions[i].len \in { FloorShare(Len(input), iteration),
                                  CeilShare(Len(input), iteration) }
    /\ (pc = "done" /\ Len(input) >= Pow2(levels)) =>
          \A i \in 1..Len(partitions) :
              /\ partitions[i].len > 0
              /\ \A ch \in {"R", "G", "B"} :
                    LET values == ChannelValues(Contents(pixels, partitions[i]), ch)
                    IN  /\ Least(values) <= Component(averages[i], ch)
                        /\ Component(averages[i], ch) <= Greatest(values)

\* Three pixels at one level: a partition of floor(3/2) and one of ceil(3/2).
C12_Witness ==
    /\ pc = "done"
    /\ Len(input) = 3
    /\ levels = 1
    /\ partitions[1].len = 1
    /\ partitions[2].len = 2
    /\ averages[2] # Pixel(0, 0, 0, 255)

\* C13: a second call of Pixels on the same slice, as the first call left it
\* reordered, with the same levels returns the palette the first call returned.
C13_RepeatedCall == (pc = "done" /\ previous # <<>>) => averages = previous

\* The first call reordered the slice, and the second call ran two levels on it.
C13_Witness ==
    /\ pc = "done"
    /\ previous # <<>>
    /\ levels >= 2
    /\ Len(input) >= 4
    /\ pixels # input
    /\ averages = previous
    /\ \E i, j \in 1..Len(averages) : averages[i] # averages[j]

====
